---------------------------- MODULE Spec2Model ----------------------------
(***************************************************************************)
(* Model of infogulch/go-sqlite-bench, package app:                        *)
(*   - BulkInsert, InsertUsersBulk, InsertUsers, FindUsers,                *)
(*     FindUsersArticlesComments                       (src/app/sqldb.go)  *)
(*   - benchWal, chunkUsers, benchConcurrent           (src/app/app.go)    *)
(* The database engine itself (database/sql + SQLite) is an external       *)
(* collaborator; it is modelled by the operators of the section "Engine".  *)
(***************************************************************************)
EXTENDS Integers, Sequences, FiniteSets, TLC

VARIABLES
    (* ---- one BulkInsert call (sqldb.go:32-74) ---- *)
    input,      \* the rows argument as passed by the caller
    rows,       \* the local rows slice: what is still to be inserted
    batch,      \* the local batch slice of the current iteration
    stmt,       \* the local stmt of the current iteration (0 = nil)
    st1,        \* statement handle for batches of 1     (0 = nil)
    st10,       \* statement handle for batches of 10    (0 = nil)
    st100,      \* statement handle for batches of 100   (0 = nil)
    pc,         \* position in BulkInsert
    (* ---- the engine's side of that call ---- *)
    stmts,      \* prepared statements: handle -> [nparams, closed]
    txState,    \* "none" | "open" | "committed"
    pending,    \* rows written inside the open transaction
    table,      \* committed rows of table users
    log,        \* every engine call made so far, in order
    faults,     \* engine failures the environment may still inject
    (* ---- one InsertUsers call (sqldb.go:108-121) on a database of its own ---- *)
    rpc,        \* position in InsertUsers
    ri,         \* how many users the range loop has executed
    rstmt,      \* the local stmt (0 = nil)
    rstmts,     \* that database's prepared statements
    rtxState,   \* that database's transaction
    rpending,   \* rows written inside its open transaction
    rtable,     \* its committed rows of table users
    rlog,       \* every engine call InsertUsers made, in order
    rfaults,    \* engine failures the environment may still inject there
    rkind,      \* which insert runs: "users" | "articles" | "comments"
    (* ---- one FindUsersArticlesComments call (sqldb.go:185-232) ---- *)
    stream,         \* the joined result set the query returns: per record the
                    \* user, article and comment identifier it carries
    jpos,           \* how many of its records rows.Next() has delivered
    jdone,          \* the call has returned
    users, userIndexer,
    articles, articleIndexer,
    comments, commentIndexer,
    fixture,        \* the constants nusers, narticlesPerUser, ncommentsPerArticle
                    \* of the caller, when the result set is benchComplex's
    (* ---- benchSimpleBulk (app.go:529-572) ---- *)
    capable,    \* whether the handle makeDb returned implements BulkDb
    spc,        \* position in benchSimpleBulk
    (* ---- one chunkUsers call (app.go:465-475) ---- *)
    cin,        \* the slice u
    ck,         \* the piece count n
    cout,       \* the pieces returned
    cdone,      \* the call has returned
    (* ---- benchWal (app.go:447-524) and benchConcurrent (app.go:385-441) ---- *)
    scenario,       \* "wal" | "concurrent" | "none"
    ngoroutines,    \* the parameter ngoroutines
    nusers,         \* the constant nusers: how many users are generated
    benchUsers,     \* the variable users of the bench function
    opc,            \* position of the bench function (the orchestrator)
    db1,            \* its setup connection: "none" | "open" | "closed"
    spawned,        \* goroutines started so far
    wg,             \* the WaitGroup counter
    aborted,        \* a panic has ended the process
    wpc,            \* per goroutine: its position
    wconn,          \* per goroutine: its connection db
    wi,             \* per goroutine: the chunk index i of its loop
    wj,             \* per goroutine: the window index j of its loop
    lastRead,       \* per goroutine: what its last FindUsers returned, and for
                    \* which chunk it asked
    ninserts,       \* per goroutine: InsertUsers calls that have returned
    nchecks,        \* per goroutine: validations that have passed
    dtable,         \* the database file: committed rows of table users
    dlock,          \* the goroutine holding the file's write lock (0: none)
    dpend,          \* per goroutine: rows of its open transaction
    connUse,        \* per connection handle: the tasks that have called it,
                    \* its Close calls, whether it was called after a Close
    wlog,           \* per goroutine: its returned inserts and its read-backs,
                    \* in order
    usersAcc        \* the accesses of the goroutines to the variable users

bulkVars == <<input, rows, batch, stmt, st1, st10, st100, pc,
              stmts, txState, pending, table, log, faults>>
rowVars == <<rpc, ri, rstmt, rstmts, rtxState, rpending, rtable, rlog, rfaults, rkind>>

joinVars == <<stream, jpos, jdone, users, userIndexer, articles, articleIndexer,
              comments, commentIndexer, fixture>>

simpleVars == <<capable, spc>>

chunkVars == <<cin, ck, cout, cdone>>

orchVars == <<scenario, ngoroutines, nusers, benchUsers, opc, db1, spawned, wg, aborted>>
workerVars == <<wpc, wconn, wi, wj, lastRead, ninserts, nchecks>>
dbVars == <<dtable, dlock, dpend>>
histVars == <<connUse, wlog, usersAcc>>
parVars == <<orchVars, workerVars, dbVars, histVars>>

vars == <<bulkVars, rowVars, joinVars, simpleVars, chunkVars, parVars>>

(* What the actions of one component leave alone.                          *)
notBulk == <<rowVars, joinVars, simpleVars, chunkVars, parVars>>
notRow == <<bulkVars, joinVars, simpleVars, chunkVars, parVars>>
notJoin == <<bulkVars, rowVars, simpleVars, chunkVars, parVars>>
notSimple == <<rowVars, joinVars, chunkVars, parVars>>
notChunk == <<bulkVars, rowVars, joinVars, simpleVars, parVars>>
notPar == <<bulkVars, rowVars, joinVars, simpleVars, chunkVars>>

----------------------------------------------------------------------------
(* Bounds of the model *)

MaxRows == 223          \* SpecBulk inserts 0..MaxRows rows
MaxFaults == 1          \* engine calls that may fail in one run
MaxEqRows == 12         \* SpecEquiv inserts 0..MaxEqRows rows both ways
MaxStream == 3          \* SpecJoin reads result sets of 0..MaxStream records
MaxChunkRows == 25      \* SpecChunk splits slices of 0..MaxChunkRows users
MaxPieces == 11         \* SpecChunk splits into 1..MaxPieces pieces
MaxExtraRows == 3       \* benchWal runs on 10 rows a goroutine plus 0..MaxExtraRows
MaxBenchRows == 12      \* benchSimpleBulk runs on 0..MaxBenchRows users
MaxRowRows == 6         \* SpecRow inserts 0..MaxRowRows rows one by one
MaxFixture == 3         \* SpecProduct joins up to MaxFixture users, articles a
                        \* user and comments an article

(* Program constants *)
Batch100 == 100
Batch10 == 10
NCols == 4
WalChunks == 10             \* chunks per goroutine in benchWal
Window == 3                 \* chunks read back after each insert
BaseSecondOfYear == 23623200  \* 2023-10-01 10:00:00, in seconds after 2023-01-01
SecondsPerYear == 31536000    \* 2023 has 365 days
ProgramUsers == 1000000       \* nusers of benchWal

----------------------------------------------------------------------------
(* Row model *)

NewUser(id, created, email, active) ==
    [Id |-> id, Created |-> created, Email |-> email, Active |-> active]

NewArticle(id, created, userId, text) ==
    [Id |-> id, Created |-> created, UserId |-> userId, Text |-> text]

NewComment(id, created, articleId, text) ==
    [Id |-> id, Created |-> created, ArticleId |-> articleId, Text |-> text]

(* A time is a count of ticks; storage holds whole units of TicksPerUnit   *)
(* ticks since the epoch, so binding truncates.                             *)
TicksPerUnit == 10
BindTime(t) == t \div TicksPerUnit
UnbindTime(x) == x * TicksPerUnit

(* An email address "user<n>@example.com".                                  *)
EmailOf(n) == <<"user", n, "@example.com">>

(* The fixture of benchSimpleBulk: ids 1..n in generation order.           *)
GenUsers(n) == [i \in 1..n |-> NewUser(i, (i - 1) * TicksPerUnit, EmailOf(i), TRUE)]

----------------------------------------------------------------------------
(* Strings are sequences of one-character tokens.                         *)

(* repeatJoin (sqldb.go:76-86): str written n times, sep between them.     *)
repeatJoin(str, n, sep) ==
    LET period == Len(str) + Len(sep)
        total == IF n <= 0 THEN 0 ELSE Len(str) * n + Len(sep) * (n - 1)
    IN [p \in 1..total |->
           LET off == (p - 1) % period IN
           IF off < Len(str) THEN str[off + 1] ELSE sep[off - Len(str) + 1]]

(* fmt.Sprintf(f, arg) for a format holding one %s verb.                   *)
RECURSIVE Sprintf(_, _)
Sprintf(f, arg) ==
    IF f = <<>> THEN <<>>
    ELSE IF Head(f) = "%s" THEN arg \o Sprintf(Tail(f), arg)
    ELSE <<Head(f)>> \o Sprintf(Tail(f), arg)

Cols == Sprintf(<<"(", "%s", ")">>, repeatJoin(<<"?">>, NCols, <<",">>))

(* "INSERT INTO users(id,created,email,active) VALUES %s"                  *)
fInsertSql == <<"I", " ", "%s">>

----------------------------------------------------------------------------
(* Engine: what database/sql and SQLite do with the calls they receive.    *)

(* The number of parameters of a statement: its ? placeholders.            *)
CountParams(sql) == Cardinality({i \in DOMAIN sql : sql[i] = "?"})

(* A bound argument: a plain value or a pointer to one.                    *)
Val(v) == [ptr |-> FALSE, v |-> v]
Ref(v) == [ptr |-> TRUE, v |-> v]
(* driver.DefaultParameterConverter dereferences a non-nil pointer.        *)
ConvertValue(a) == a.v

(* The rows an INSERT ... VALUES (?,?,?,?),... writes for its arguments.   *)
RowsOfArgs(args) ==
    [i \in 1..(Len(args) \div NCols) |->
        <<ConvertValue(args[NCols * (i - 1) + 1]),
          ConvertValue(args[NCols * (i - 1) + 2]),
          ConvertValue(args[NCols * (i - 1) + 3]),
          ConvertValue(args[NCols * (i - 1) + 4])>>]

Range(s) == {s[i] : i \in DOMAIN s}

Ids(rs) == {r[1] : r \in rs}

(* Whether the engine accepts an execution of statement h with args:       *)
(* the statement is open, the argument count matches, no key repeats.      *)
ExecAccepted(state, h, args, pend, tab) ==
    LET new == RowsOfArgs(args) IN
    /\ h \in DOMAIN state
    /\ ~state[h].closed
    /\ Len(args) = state[h].nparams
    /\ Cardinality(Ids(Range(new))) = Len(new)
    /\ Ids(Range(new)) \cap Ids(pend \cup tab) = {}

----------------------------------------------------------------------------
(* BulkInsert (sqldb.go:32-74), instantiated as InsertUsersBulk does.      *)

(* InsertUsersBulk's values function (sqldb.go:102-105).                   *)
valuesNoBind(u) == <<Val(u.Id), Val(u.Created), Ref(u.Email), Val(u.Active)>>
values(u) == <<Val(u.Id), Val(BindTime(u.Created)), Ref(u.Email), Val(u.Active)>>

(* sqldb.go:58-61: args of one batch.                                      *)
BatchArgs(b) ==
    [k \in 1..(NCols * Len(b)) |->
        values(b[((k - 1) \div NCols) + 1])[((k - 1) % NCols) + 1]]

Ev(op, h, size, args, ok) ==
    [op |-> op, stmt |-> h, size |-> size, args |-> args, ok |-> ok]

Panic == /\ pc' = "panic"

(* No InsertUsers call is under way.                                        *)
RowIdle ==
    /\ rpc = "idle" /\ ri = 0 /\ rstmt = 0 /\ rstmts = <<>> /\ rtxState = "none"
    /\ rpending = {} /\ rtable = {} /\ rlog = <<>> /\ rfaults = 0
    /\ rkind = "users"

(* No BulkInsert call is under way.                                         *)
BulkIdle ==
    /\ input = <<>> /\ rows = <<>> /\ batch = <<>> /\ stmt = 0
    /\ st1 = 0 /\ st10 = 0 /\ st100 = 0 /\ pc = "idle"
    /\ stmts = <<>> /\ txState = "none" /\ pending = {} /\ table = {}
    /\ log = <<>> /\ faults = 0

(* No chunkUsers call is under way.                                         *)
ChunkIdle == cin = <<>> /\ ck = 1 /\ cout = <<>> /\ cdone = TRUE

(* No concurrent scenario is under way.                                     *)
ParIdle ==
    /\ scenario = "none" /\ ngoroutines = 0 /\ nusers = 0 /\ benchUsers = <<>>
    /\ opc = "done"
    /\ db1 = "none" /\ spawned = 0 /\ wg = 0 /\ aborted = FALSE
    /\ wpc = <<>> /\ wconn = <<>> /\ wi = <<>> /\ wj = <<>> /\ lastRead = <<>>
    /\ ninserts = <<>> /\ nchecks = <<>>
    /\ dtable = {} /\ dlock = 0 /\ dpend = <<>>
    /\ connUse = <<>> /\ wlog = <<>> /\ usersAcc = <<>>

(* No FindUsersArticlesComments call is under way.                          *)
JoinIdle ==
    /\ stream = <<>> /\ jpos = 0 /\ jdone = TRUE
    /\ users = <<>> /\ userIndexer = <<>>
    /\ articles = <<>> /\ articleIndexer = <<>>
    /\ comments = <<>> /\ commentIndexer = <<>>
    /\ fixture = <<0, 0, 0>>

(* benchSimpleBulk is not under way.                                        *)
SimpleIdle == capable = TRUE /\ spc = "idle"

InitBulk ==
    /\ \E n \in 0..MaxRows : input = GenUsers(n)
    /\ rows = input
    /\ batch = <<>>
    /\ stmt = 0
    /\ st1 = 0 /\ st10 = 0 /\ st100 = 0
    /\ pc = "begin"
    /\ stmts = <<>>
    /\ txState = "none"
    /\ pending = {}
    /\ table = {}
    /\ log = <<>>
    /\ faults \in 0..MaxFaults
    /\ RowIdle
    /\ JoinIdle
    /\ SimpleIdle
    /\ ChunkIdle
    /\ ParIdle

(* sqldb.go:34  tx := try(db.Begin())("open tx")                           *)
Begin ==
    /\ pc = "begin"
    /\ \/ /\ txState' = "open"
          /\ log' = Append(log, Ev("begin", 0, 0, <<>>, TRUE))
          /\ pc' = "loop"
          /\ UNCHANGED faults
       \/ /\ faults > 0
          /\ faults' = faults - 1
          /\ log' = Append(log, Ev("begin", 0, 0, <<>>, FALSE))
          /\ Panic
          /\ UNCHANGED txState
    /\ UNCHANGED <<input, rows, batch, stmt, st1, st10, st100, stmts, pending, table>>
    /\ UNCHANGED notBulk


(* sqldb.go:36-57 up to the prepare: the loop test, the size choice and    *)
(* the slicing  batch, rows = rows[:s], rows[s:].                           *)
BatchSizeBug(n) == IF n > Batch100 THEN Batch100 ELSE IF n >= Batch10 THEN Batch10 ELSE 1
BatchSize(n) == IF n >= Batch100 THEN Batch100 ELSE IF n >= Batch10 THEN Batch10 ELSE 1

StOfBug(s) == IF s = Batch100 THEN st100 ELSE st1
StOf(s) == IF s = Batch100 THEN st100 ELSE IF s = Batch10 THEN st10 ELSE st1

(* rows[:s] and rows[s:] *)
SliceTo(r, s) == SubSeq(r, 1, s)
SliceFromBug(r, s) == SubSeq(r, s + 2, Len(r))
SliceFromStuck(r, s) == r
SliceFrom(r, s) == SubSeq(r, s + 1, Len(r))

Take ==
    /\ pc = "loop"
    /\ Len(rows) > 0
    /\ LET s == BatchSize(Len(rows)) IN
       /\ batch' = SliceTo(rows, s)
       /\ rows' = SliceFrom(rows, s)
       /\ IF StOf(s) = 0
          THEN pc' = "prepare" /\ UNCHANGED stmt
          ELSE pc' = "exec" /\ stmt' = StOf(s)
    /\ UNCHANGED <<input, st1, st10, st100, stmts, txState, pending, table, log, faults>>
    /\ UNCHANGED notBulk

(* The SQL text prepared for a batch of s rows (sqldb.go:42, 48, 54).      *)
InsertSql(s) ==
    IF s = 1 THEN Sprintf(fInsertSql, Cols)
    ELSE Sprintf(fInsertSql, repeatJoin(Cols, s, <<",">>))

(* sqldb.go:41-44, 47-50, 53-56: the lazy prepare of the size's statement. *)
Prepare ==
    /\ pc = "prepare"
    /\ \E sql \in {InsertSql(Len(batch))} :
       LET s == Len(batch)
           h == Len(stmts) + 1
       IN \/ /\ stmts' = Append(stmts, [nparams |-> CountParams(sql),
                                        closed |-> FALSE])
             /\ st100' = IF s = Batch100 THEN h ELSE st100
             /\ st10' = IF s = Batch10 THEN h ELSE st10
             /\ st1' = IF s = 1 THEN h ELSE st1
             /\ stmt' = h
             /\ log' = Append(log, Ev("prepare", h, s, <<>>, TRUE))
             /\ pc' = "exec"
             /\ UNCHANGED faults
          \/ /\ faults > 0
             /\ faults' = faults - 1
             /\ log' = Append(log, Ev("prepare", 0, s, <<>>, FALSE))
             /\ Panic
             /\ UNCHANGED <<stmts, st1, st10, st100, stmt>>
    /\ UNCHANGED <<input, rows, batch, txState, pending, table>>
    /\ UNCHANGED notBulk

(* sqldb.go:58-62: build args and stmt.Exec(args...); the result and the   *)
(* error of Exec are discarded.                                            *)
Exec ==
    /\ pc = "exec"
    /\ \E args \in {BatchArgs(batch)} :
       \/ /\ ExecAccepted(stmts, stmt, args, pending, table)
          /\ pending' = pending \cup Range(RowsOfArgs(args))
          /\ log' = Append(log, Ev("exec", stmt, Len(batch), args, TRUE))
          /\ UNCHANGED faults
       \/ /\ \/ ~ExecAccepted(stmts, stmt, args, pending, table) /\ UNCHANGED faults
             \/ faults > 0 /\ faults' = faults - 1
          /\ log' = Append(log, Ev("exec", stmt, Len(batch), args, FALSE))
          /\ UNCHANGED pending
    /\ pc' = "loop"
    /\ UNCHANGED <<input, rows, batch, stmt, st1, st10, st100, stmts, txState, table>>
    /\ UNCHANGED notBulk

LoopExitBug ==
    /\ pc = "loop"
    /\ Len(rows) = 0
    /\ pc' = IF input = <<>> THEN "done" ELSE "close1"
    /\ UNCHANGED <<input, rows, batch, stmt, st1, st10, st100, stmts, txState,
                   pending, table, log, faults>>
    /\ UNCHANGED notBulk

(* sqldb.go:36: the loop ends when no row remains.                          *)
LoopExit ==
    /\ pc = "loop"
    /\ Len(rows) = 0
    /\ pc' = "close1"
    /\ UNCHANGED <<input, rows, batch, stmt, st1, st10, st100, stmts, txState,
                   pending, table, log, faults>>
    /\ UNCHANGED notBulk

(* One  if st != nil { try0(st.Close(), ...) }  step.                       *)
CloseStep(at, h, next) ==
    /\ pc = at
    /\ IF h = 0
       THEN /\ pc' = next
            /\ UNCHANGED <<stmts, log, faults>>
       ELSE \/ /\ stmts' = [stmts EXCEPT ![h].closed = TRUE]
               /\ log' = Append(log, Ev("close", h, 0, <<>>, TRUE))
               /\ pc' = next
               /\ UNCHANGED faults
            \/ /\ faults > 0
               /\ faults' = faults - 1
               /\ log' = Append(log, Ev("close", h, 0, <<>>, FALSE))
               /\ Panic
               /\ UNCHANGED stmts
    /\ UNCHANGED <<input, rows, batch, stmt, st1, st10, st100, txState, pending, table>>
    /\ UNCHANGED notBulk

(* sqldb.go:64-66 *)
Close1 == CloseStep("close1", st1, "close10")
(* sqldb.go:67-69 *)
Close10 == CloseStep("close10", st10, "close100")
Close100Bug == CloseStep("close100", st10, "commit")
(* sqldb.go:70-72 *)
Close100 == CloseStep("close100", st100, "commit")

(* sqldb.go:73  try0(tx.Commit(), "commit")                                 *)
Commit ==
    /\ pc = "commit"
    /\ \/ /\ txState' = "committed"
          /\ table' = table \cup pending
          /\ pending' = {}
          /\ log' = Append(log, Ev("commit", 0, 0, <<>>, TRUE))
          /\ pc' = "done"
          /\ UNCHANGED faults
       \/ /\ faults > 0
          /\ faults' = faults - 1
          /\ log' = Append(log, Ev("commit", 0, 0, <<>>, FALSE))
          /\ Panic
          /\ UNCHANGED <<txState, table, pending>>
    /\ UNCHANGED <<input, rows, batch, stmt, st1, st10, st100, stmts>>
    /\ UNCHANGED notBulk

NextBulk ==
    \/ Begin \/ Take \/ Prepare \/ Exec \/ LoopExit
    \/ Close1 \/ Close10 \/ Close100 \/ Commit

SpecBulk == InitBulk /\ [][NextBulk]_vars

(* BulkInsert run to its end: the call is not suspended for ever while it   *)
(* has a step to take (the driver answers every call).                      *)
SpecBulkFair == InitBulk /\ [][NextBulk]_vars /\ WF_vars(NextBulk)

----------------------------------------------------------------------------
(* InsertUsers (sqldb.go:108-121): the row-by-row insert.                  *)

(* "INSERT INTO users(id,created,email,active) VALUES(?,?,?,?)"            *)
insertUserSql == <<"I", "(", "?", ",", "?", ",", "?", ",", "?", ")">>

(* "INSERT INTO articles(id,created,userId,text) VALUES(?,?,?,?)" and      *)
(* "INSERT INTO comments(id,created,articleId,text) VALUES(?,?,?,?)"       *)
insertArticleSql == <<"A", "(", "?", ",", "?", ",", "?", ",", "?", ")">>
insertCommentSql == <<"C", "(", "?", ",", "?", ",", "?", ",", "?", ")">>

(* The insertSql each caller passes (app.go:227-229).                       *)
RowSql(kind) ==
    IF kind = "users" THEN insertUserSql
    ELSE IF kind = "articles" THEN insertArticleSql
    ELSE insertCommentSql

(* MustBeNil(err) with err # nil.                                          *)
RPanicBug == /\ rpc' = "loop"
RPanic == /\ rpc' = "panic"

(* sqldb.go:114: the arguments of one row's execute.                       *)
RowArgsNoBind(u) == <<Val(u.Id), Val(u.Created), Val(u.Email), Val(u.Active)>>
RowArgs(u) == <<Val(u.Id), Val(BindTime(u.Created)), Val(u.Email), Val(u.Active)>>
(* sqldb.go:129 and sqldb.go:144: the same for an article and a comment.   *)
ArticleArgs(a) == <<Val(a.Id), Val(BindTime(a.Created)), Val(a.UserId), Val(a.Text)>>
CommentArgs(c) == <<Val(c.Id), Val(BindTime(c.Created)), Val(c.ArticleId), Val(c.Text)>>

ExecArgs(kind, r) ==
    IF kind = "users" THEN RowArgs(r)
    ELSE IF kind = "articles" THEN ArticleArgs(r)
    ELSE CommentArgs(r)

(* sqldb.go:109-110 (InsertUsers), 124-125 (InsertArticles), 139-140       *)
(* (InsertComments); the three functions differ in the columns they bind.  *)
RBegin ==
    /\ rpc = "begin"
    /\ \/ /\ rtxState' = "open"
          /\ rlog' = Append(rlog, Ev("begin", 0, 0, <<>>, TRUE))
          /\ rpc' = "prepare"
          /\ UNCHANGED rfaults
       \/ /\ rfaults > 0
          /\ rfaults' = rfaults - 1
          /\ rlog' = Append(rlog, Ev("begin", 0, 0, <<>>, FALSE))
          /\ RPanic
          /\ UNCHANGED rtxState
    /\ UNCHANGED <<ri, rstmt, rstmts, rpending, rtable, rkind>>
    /\ UNCHANGED notRow

(* sqldb.go:111-112 *)
RPrepare ==
    /\ rpc = "prepare"
    /\ LET h == Len(rstmts) + 1 IN
       \/ /\ rstmts' = Append(rstmts, [nparams |-> CountParams(RowSql(rkind)),
                                       closed |-> FALSE])
          /\ rstmt' = h
          /\ rlog' = Append(rlog, Ev("prepare", h, 1, <<>>, TRUE))
          /\ rpc' = "loop"
          /\ UNCHANGED rfaults
       \/ /\ rfaults > 0
          /\ rfaults' = rfaults - 1
          /\ rlog' = Append(rlog, Ev("prepare", 0, 1, <<>>, FALSE))
          /\ RPanic
          /\ UNCHANGED <<rstmts, rstmt>>
    /\ UNCHANGED <<ri, rtxState, rpending, rtable, rkind>>
    /\ UNCHANGED notRow

(* sqldb.go:113-116: one iteration of the range loop.                      *)
RExec ==
    /\ rpc = "loop"
    /\ ri < Len(input)
    /\ LET args == ExecArgs(rkind, input[ri + 1]) IN
       \/ /\ ExecAccepted(rstmts, rstmt, args, rpending, rtable)
          /\ rpending' = rpending \cup Range(RowsOfArgs(args))
          /\ rlog' = Append(rlog, Ev("exec", rstmt, 1, args, TRUE))
          /\ ri' = ri + 1
          /\ rpc' = "loop"
          /\ UNCHANGED rfaults
       \/ /\ \/ ~ExecAccepted(rstmts, rstmt, args, rpending, rtable) /\ UNCHANGED rfaults
             \/ rfaults > 0 /\ rfaults' = rfaults - 1
          /\ rlog' = Append(rlog, Ev("exec", rstmt, 1, args, FALSE))
          /\ RPanic
          /\ UNCHANGED <<rpending, ri>>
    /\ UNCHANGED <<rstmt, rstmts, rtxState, rtable, rkind>>
    /\ UNCHANGED notRow

(* sqldb.go:117-118, once the range loop is over.                          *)
RClose ==
    /\ rpc = "loop"
    /\ ri = Len(input)
    /\ \/ /\ rstmts' = [rstmts EXCEPT ![rstmt].closed = TRUE]
          /\ rlog' = Append(rlog, Ev("close", rstmt, 0, <<>>, TRUE))
          /\ rpc' = "commit"
          /\ UNCHANGED rfaults
       \/ /\ rfaults > 0
          /\ rfaults' = rfaults - 1
          /\ rlog' = Append(rlog, Ev("close", rstmt, 0, <<>>, FALSE))
          /\ RPanic
          /\ UNCHANGED rstmts
    /\ UNCHANGED <<ri, rstmt, rtxState, rpending, rtable, rkind>>
    /\ UNCHANGED notRow

(* sqldb.go:119-120 *)
RCommit ==
    /\ rpc = "commit"
    /\ \/ /\ rtxState' = "committed"
          /\ rtable' = rtable \cup rpending
          /\ rpending' = {}
          /\ rlog' = Append(rlog, Ev("commit", 0, 0, <<>>, TRUE))
          /\ rpc' = "done"
          /\ UNCHANGED rfaults
       \/ /\ rfaults > 0
          /\ rfaults' = rfaults - 1
          /\ rlog' = Append(rlog, Ev("commit", 0, 0, <<>>, FALSE))
          /\ RPanic
          /\ UNCHANGED <<rtxState, rtable, rpending>>
    /\ UNCHANGED <<ri, rstmt, rstmts, rkind>>
    /\ UNCHANGED notRow

----------------------------------------------------------------------------
(* FindUsers (sqldb.go:153-167) for  SELECT ... FROM users WHERE id        *)
(* BETWEEN lo AND hi ORDER BY id.                                           *)

(* The engine's answer: the rows of the range, ascending by id.            *)
QueryById(tab, lo, hi) ==
    LET hit == {r \in tab : lo <= r[1] /\ r[1] <= hi} IN
    [k \in 1..Cardinality(hit) |->
        CHOOSE r \in hit : Cardinality({q \in hit : q[1] < r[1]}) = k - 1]

(* sqldb.go:161-165: scan and decode each row.                              *)
FindUsersBetween(tab, lo, hi) ==
    LET rs == QueryById(tab, lo, hi) IN
    [k \in DOMAIN rs |-> NewUser(rs[k][1], UnbindTime(rs[k][2]), rs[k][3], rs[k][4])]

MinId(tab) == IF tab = {} THEN 0 ELSE CHOOSE m \in Ids(tab) : \A x \in Ids(tab) : m <= x
MaxId(tab) == IF tab = {} THEN 0 ELSE CHOOSE m \in Ids(tab) : \A x \in Ids(tab) : m >= x

(* "SELECT id,created,email,active FROM users ORDER BY id"                  *)
FindUsers(tab) == FindUsersBetween(tab, MinId(tab), MaxId(tab))

----------------------------------------------------------------------------
(* The same users inserted into two empty databases: by InsertUsersBulk    *)
(* into one, by InsertUsers into the other.  The engine fails a call only  *)
(* for what SQL rejects (a repeated primary key).                           *)

(* n users; ids are 1..n rotated by k; with dup the last id repeats the    *)
(* first; times, emails and flags vary with the position.                   *)
EqUsers(n, k, dup) ==
    [i \in 1..n |->
        NewUser(IF dup /\ i = n /\ n > 1 THEN ((k) % n) + 1 ELSE ((i + k - 1) % n) + 1,
                1000 - 7 * i, EmailOf(n - i), i % 2 = 0)]

UniqueIds(us) == \A i, j \in DOMAIN us : us[i].Id = us[j].Id => i = j

InitEquiv ==
    /\ \E n \in 0..MaxEqRows, k \in 0..2, dup \in BOOLEAN : input = EqUsers(n, k, dup)
    /\ rows = input
    /\ batch = <<>>
    /\ stmt = 0
    /\ st1 = 0 /\ st10 = 0 /\ st100 = 0
    /\ pc = "begin"
    /\ stmts = <<>>
    /\ txState = "none"
    /\ pending = {}
    /\ table = {}
    /\ log = <<>>
    /\ faults = 0
    /\ rpc = "begin" /\ ri = 0 /\ rstmt = 0 /\ rstmts = <<>> /\ rtxState = "none"
    /\ rpending = {} /\ rtable = {} /\ rlog = <<>> /\ rfaults = 0
    /\ rkind = "users"
    /\ JoinIdle
    /\ SimpleIdle
    /\ ChunkIdle
    /\ ParIdle

NextEquiv ==
    \/ Begin \/ Take \/ Prepare \/ Exec \/ LoopExit
    \/ Close1 \/ Close10 \/ Close100 \/ Commit
    \/ RBegin \/ RPrepare \/ RExec \/ RClose \/ RCommit

SpecEquiv == InitEquiv /\ [][NextEquiv]_vars

(* One row-by-row insert of users, articles or comments, on an engine      *)
(* that may fail a call.  Articles and comments are made as benchComplex   *)
(* makes them (app.go:195-224), two children a parent.                      *)
GenArticles(n) ==
    [i \in 1..n |-> NewArticle(i, 100 + 7 * i, ((i - 1) \div 2) + 1, <<"article text">>)]
GenComments(n) ==
    [i \in 1..n |-> NewComment(i, 200 + 7 * i, ((i - 1) \div 2) + 1, <<"comment text">>)]

InitRow ==
    /\ rkind \in {"users", "articles", "comments"}
    /\ \E n \in 0..MaxRowRows, k \in 0..1, dup \in BOOLEAN :
          input = IF rkind = "users" THEN EqUsers(n, k, dup)
                  ELSE IF rkind = "articles" THEN GenArticles(n)
                  ELSE GenComments(n)
    /\ rows = <<>> /\ batch = <<>> /\ stmt = 0
    /\ st1 = 0 /\ st10 = 0 /\ st100 = 0 /\ pc = "idle"
    /\ stmts = <<>> /\ txState = "none" /\ pending = {} /\ table = {}
    /\ log = <<>> /\ faults = 0
    /\ rpc = "begin" /\ ri = 0 /\ rstmt = 0 /\ rstmts = <<>> /\ rtxState = "none"
    /\ rpending = {} /\ rtable = {} /\ rlog = <<>>
    /\ rfaults \in 0..MaxFaults
    /\ JoinIdle
    /\ SimpleIdle
    /\ ChunkIdle
    /\ ParIdle

NextRow == RBegin \/ RPrepare \/ RExec \/ RClose \/ RCommit

SpecRow == InitRow /\ [][NextRow]_vars

(* C18: the engine calls of a row-by-row insert of n rows are, in order,   *)
(* one begin, one prepare, one execute per row with that row's values in   *)
(* input order, one close, one commit; a failed call is the last call made *)
(* and ends the process, so that after a failed execute no further row is  *)
(* executed, nothing is closed and nothing is committed.                    *)
C18_RowByRow ==
    LET n == Len(input) IN
    /\ Len(rlog) <= n + 4
    /\ \A i \in DOMAIN rlog :
          /\ i = 1 => rlog[i].op = "begin"
          /\ i = 2 => rlog[i].op = "prepare"
          /\ (3 <= i /\ i <= n + 2) =>
                /\ rlog[i].op = "exec"
                /\ rlog[i].args = ExecArgs(rkind, input[i - 2])
                /\ rlog[i].stmt = rlog[2].stmt
          /\ i = n + 3 => rlog[i].op = "close" /\ rlog[i].stmt = rlog[2].stmt
          /\ i = n + 4 => rlog[i].op = "commit"
          /\ ~rlog[i].ok => i = Len(rlog) /\ rpc = "panic"
    /\ rpc = "panic" =>
          /\ ~rlog[Len(rlog)].ok
          /\ rtxState # "committed"
          /\ rtable = {}
    /\ rpc = "done" =>
          /\ Len(rlog) = n + 4
          /\ \A i \in DOMAIN rlog : rlog[i].ok
          /\ rtxState = "committed"
          /\ rstmts[rstmt].closed
          /\ Cardinality(rtable) = n

(* The second of four or more articles failed: the process has ended with  *)
(* one row executed.                                                         *)
C18_Witness ==
    /\ rkind = "articles"
    /\ Len(input) >= 4
    /\ rpc = "panic"
    /\ Len(rlog) = 4
    /\ rlog[3].op = "exec" /\ rlog[3].ok
    /\ rlog[4].op = "exec" /\ ~rlog[4].ok
    /\ ri = 1
    /\ rtable = {}

(* C6: for users with unique ids, once both inserts have returned the two  *)
(* tables hold the same rows, one per input user with that user's id,      *)
(* bound time, email and flag, and FindUsers ... ORDER BY id reads the     *)
(* same sequence from both.                                                 *)
C6_BulkEqualsRowByRow ==
    (UniqueIds(input) /\ pc = "done" /\ rpc = "done") =>
        /\ table = rtable
        /\ table = {<<input[i].Id, BindTime(input[i].Created), input[i].Email,
                      input[i].Active>> : i \in DOMAIN input}
        /\ Cardinality(table) = Len(input)
        /\ FindUsers(table) = FindUsers(rtable)

C6_Witness ==
    /\ UniqueIds(input) /\ pc = "done" /\ rpc = "done"
    /\ Len(input) = MaxEqRows
    /\ input[1].Id # 1
    /\ Len(FindUsers(table)) = MaxEqRows
    /\ FindUsers(table)[1].Id = 1

----------------------------------------------------------------------------
(* FindUsersArticlesComments (sqldb.go:185-232).                           *)

(* A column of a result record: NULL, or a value.                           *)
Null == [valid |-> FALSE, v |-> 0]
Col(x) == [valid |-> TRUE, v |-> x]

(* rows.Scan into sql.NullInt32 / NullInt64, NullString, NullBool and the  *)
(* reads of .Int32 / .Int64, .String, .Bool: NULL leaves the zero value.   *)
ScanInt(c) == IF c.valid THEN c.v ELSE 0
ScanString(c) == IF c.valid THEN c.v ELSE <<>>
ScanBool(c) == IF c.valid THEN c.v ELSE FALSE

(* sqldb.go:212-214 *)
DecodeUser(r) ==
    NewUser(ScanInt(r[1]), UnbindTime(ScanInt(r[2])), ScanString(r[3]), ScanBool(r[4]))
DecodeArticle(r) ==
    NewArticle(ScanInt(r[5]), UnbindTime(ScanInt(r[6])), ScanInt(r[7]), ScanString(r[8]))
DecodeComment(r) ==
    NewComment(ScanInt(r[9]), UnbindTime(ScanInt(r[10])), ScanInt(r[11]), ScanString(r[12]))

(* The result sets the model feeds in: record p carries user uid, article  *)
(* aid and comment cid (0: the joined entity is missing, its columns are   *)
(* NULL); the other columns are marked with p, so that two records of one  *)
(* identifier can be told apart.                                            *)
UserIds == {1, 2}
ArticleIds == {0, 1, 2}
CommentIds == {0, 1, 2}

JoinRecord(p, uid, aid, cid) ==
    <<Col(uid), Col(10 + p), Col(<<"email", p>>), Col(p % 2 = 0)>>
    \o (IF aid = 0 THEN <<Null, Null, Null, Null>>
        ELSE <<Col(aid), Col(20 + p), Col(uid), Col(<<"article", p>>)>>)
    \o (IF cid = 0 THEN <<Null, Null, Null, Null>>
        ELSE <<Col(cid), Col(30 + p), Col(aid), Col(<<"comment", p>>)>>)

(* The record that rows.Scan reads at position p of the result set.        *)
Record(p) == JoinRecord(p, stream[p][1], stream[p][2], stream[p][3])

InitJoin ==
    /\ \E n \in 0..MaxStream : stream \in [1..n -> UserIds \X ArticleIds \X CommentIds]
    /\ jpos = 0
    /\ jdone = FALSE
    /\ users = <<>> /\ userIndexer = <<>>
    /\ articles = <<>> /\ articleIndexer = <<>>
    /\ comments = <<>> /\ commentIndexer = <<>>
    /\ fixture = <<0, 0, 0>>
    /\ BulkIdle
    /\ RowIdle
    /\ SimpleIdle
    /\ ChunkIdle
    /\ ParIdle

(* _, ok := indexer[id]  (sqldb.go:215, 220, 225)                           *)
UserSeenBug(user) == FALSE
UserSeen(user) == user.Id \in DOMAIN userIndexer
ArticleSeenBug(article) == article.Id \in DOMAIN userIndexer
ArticleSeen(article) == article.Id \in DOMAIN articleIndexer
CommentSeenSuppress(comment) == comment.Id = 0 \/ comment.Id \in DOMAIN commentIndexer
CommentSeen(comment) == comment.Id \in DOMAIN commentIndexer

(* sqldb.go:207-230: one iteration of  for rows.Next().                     *)
Scan ==
    /\ ~jdone
    /\ jpos < Len(stream)
    /\ LET r == Record(jpos + 1)
           user == DecodeUser(r)
           article == DecodeArticle(r)
           comment == DecodeComment(r)
       IN /\ IF ~UserSeen(user)
             THEN /\ userIndexer' = (user.Id :> Len(users)) @@ userIndexer
                  /\ users' = Append(users, user)
             ELSE UNCHANGED <<userIndexer, users>>
          /\ IF ~ArticleSeen(article)
             THEN /\ articleIndexer' = (article.Id :> Len(articles)) @@ articleIndexer
                  /\ articles' = Append(articles, article)
             ELSE UNCHANGED <<articleIndexer, articles>>
          /\ IF ~CommentSeen(comment)
             THEN /\ commentIndexer' = (comment.Id :> Len(comments)) @@ commentIndexer
                  /\ comments' = Append(comments, comment)
             ELSE UNCHANGED <<commentIndexer, comments>>
    /\ jpos' = jpos + 1
    /\ UNCHANGED <<stream, jdone, fixture>>
    /\ UNCHANGED notJoin

(* sqldb.go:231: rows.Next() is false, the three collections are returned. *)
Return ==
    /\ ~jdone
    /\ jpos = Len(stream)
    /\ jdone' = TRUE
    /\ UNCHANGED <<stream, jpos, users, userIndexer, articles, articleIndexer,
                   comments, commentIndexer, fixture>>
    /\ UNCHANGED notJoin

NextJoin == Scan \/ Return

SpecJoin == InitJoin /\ [][NextJoin]_vars

(* coll holds, for the first upto records of the stream, one entry per     *)
(* identifier that Dec decodes from them: the entry decoded from the first *)
(* record carrying the identifier, entries in the order of those records.  *)
FirstOccurrences(coll, Dec(_), upto) ==
    LET FirstPos(id) == CHOOSE p \in 1..upto :
                           /\ Dec(Record(p)).Id = id
                           /\ \A q \in 1..(p - 1) : Dec(Record(q)).Id # id
    IN /\ {coll[k].Id : k \in DOMAIN coll} = {Dec(Record(p)).Id : p \in 1..upto}
       /\ \A k, l \in DOMAIN coll : coll[k].Id = coll[l].Id => k = l
       /\ \A k \in DOMAIN coll : coll[k] = Dec(Record(FirstPos(coll[k].Id)))
       /\ \A k, l \in DOMAIN coll : k < l => FirstPos(coll[k].Id) < FirstPos(coll[l].Id)

(* C7: after any number of records, and so when the call returns, each of  *)
(* the three collections holds exactly the first occurrences of its        *)
(* identifiers, in stream order.                                            *)
C7_FirstOccurrenceOrder ==
    /\ FirstOccurrences(users, DecodeUser, jpos)
    /\ FirstOccurrences(articles, DecodeArticle, jpos)
    /\ FirstOccurrences(comments, DecodeComment, jpos)
    /\ jdone => jpos = Len(stream)

C7_Witness ==
    /\ jdone /\ Len(stream) = MaxStream
    /\ Len(users) = 2 /\ users[1].Id = 2
    /\ Len(articles) = 2 /\ articles[1].Id = 2 /\ articles[1].Text = <<"article", 1>>
    /\ Len(comments) = 1 /\ comments[1].Text = <<"comment", 1>>

(* What a record without an article, or without a comment, decodes to.     *)
ZeroArticle == NewArticle(0, UnbindTime(0), 0, <<>>)
ZeroComment == NewComment(0, UnbindTime(0), 0, <<>>)

(* The records among the first upto whose column c is NULL.                 *)
NullAt(c, upto) == {p \in 1..upto : ~Record(p)[c].valid}

(* coll has exactly one entry of identifier 0, the zero record, at the     *)
(* place of the first record of nulls among the first occurrences.         *)
ZeroOnce(coll, Dec(_), nulls, zero) ==
    LET first == CHOOSE p \in nulls : \A q \in nulls : p <= q
        zeros == {k \in DOMAIN coll : coll[k].Id = 0}
    IN /\ Cardinality(zeros) = 1
       /\ \A k \in zeros :
             /\ coll[k] = zero
             /\ k = 1 + Cardinality({Dec(Record(q)).Id : q \in 1..(first - 1)})

(* C16: a record whose article (comment) identifier is NULL decodes to the *)
(* zero article (comment), identifier 0; as soon as one such record has    *)
(* been read the collection holds the zero record exactly once, at the     *)
(* place of its first occurrence, however many such records follow; and it *)
(* holds none before.                                                        *)
C16_NullNotSuppressed ==
    /\ \A p \in NullAt(5, Len(stream)) : DecodeArticle(Record(p)) = ZeroArticle
    /\ \A p \in NullAt(9, Len(stream)) : DecodeComment(Record(p)) = ZeroComment
    /\ IF NullAt(5, jpos) # {}
       THEN ZeroOnce(articles, DecodeArticle, NullAt(5, jpos), ZeroArticle)
       ELSE \A k \in DOMAIN articles : articles[k].Id # 0
    /\ IF NullAt(9, jpos) # {}
       THEN ZeroOnce(comments, DecodeComment, NullAt(9, jpos), ZeroComment)
       ELSE \A k \in DOMAIN comments : comments[k].Id # 0

(* Three records, the last two without a comment, the last without an      *)
(* article.                                                                  *)
C16_Witness ==
    /\ jdone /\ jpos = 3
    /\ NullAt(9, jpos) = {2, 3}
    /\ NullAt(5, jpos) = {3}
    /\ Len(comments) = 2 /\ comments[1].Id # 0 /\ comments[2] = ZeroComment
    /\ Len(articles) = 3 /\ articles[3] = ZeroArticle

----------------------------------------------------------------------------
(* FindUsersArticlesComments on the result set of benchComplex              *)
(* (app.go:179-244): nusers users, narticlesPerUser articles a user,       *)
(* ncommentsPerArticle comments an article, identifiers counted up in      *)
(* generation order, the records ordered by users.created,                 *)
(* articles.created, comments.created, which is generation order.          *)
ProductStream(nu, na, nc) ==
    [p \in 1..(nu * na * nc) |->
        <<((p - 1) \div (na * nc)) + 1, ((p - 1) \div nc) + 1, p>>]

InitProduct ==
    /\ fixture \in (0..MaxFixture) \X (1..MaxFixture) \X (1..MaxFixture)
    /\ stream = ProductStream(fixture[1], fixture[2], fixture[3])
    /\ jpos = 0
    /\ jdone = FALSE
    /\ users = <<>> /\ userIndexer = <<>>
    /\ articles = <<>> /\ articleIndexer = <<>>
    /\ comments = <<>> /\ commentIndexer = <<>>
    /\ BulkIdle
    /\ RowIdle
    /\ SimpleIdle
    /\ ChunkIdle
    /\ ParIdle

NextProduct == Scan \/ Return

SpecProduct == InitProduct /\ [][NextProduct]_vars

(* C17: on the product stream the call returns U users, U*A articles and   *)
(* U*A*C comments, the k-th entry of each collection with identifier k,    *)
(* the articles' UserId within 1..U and the comments' ArticleId within     *)
(* 1..U*A, both non-decreasing along the output.                            *)
C17_ProductCounts ==
    jdone =>
        LET U == fixture[1]
            A == fixture[2]
            C == fixture[3]
        IN /\ Len(users) = U
           /\ Len(articles) = U * A
           /\ Len(comments) = U * A * C
           /\ \A k \in DOMAIN users : users[k].Id = k
           /\ \A k \in DOMAIN articles :
                 /\ articles[k].Id = k
                 /\ articles[k].UserId \in 1..U
                 /\ k > 1 => articles[k].UserId >= articles[k - 1].UserId
           /\ \A k \in DOMAIN comments :
                 /\ comments[k].Id = k
                 /\ comments[k].ArticleId \in 1..(U * A)
                 /\ k > 1 => comments[k].ArticleId >= comments[k - 1].ArticleId

C17_Witness ==
    /\ jdone
    /\ fixture = <<2, 3, 2>>
    /\ Len(stream) = 12
    /\ Len(users) = 2 /\ Len(articles) = 6 /\ Len(comments) = 12
    /\ articles[4].UserId = 2
    /\ comments[12].ArticleId = 6

----------------------------------------------------------------------------
(* chunkUsers (app.go:465-475).                                             *)

(* The fixture of benchWal and benchConcurrent (app.go:456-464, 393-401).  *)
GenWalUsers(n) == [i \in 1..n |-> NewUser(i, (i - 1) * TicksPerUnit, EmailOf(i), TRUE)]

(* u[a:b] of Go, for 0 <= a <= b <= len(u).                                 *)
Slice(u, a, b) == SubSeq(u, a + 1, b)

chunkUsersNoLeftover(u, n) ==
    LET cn == Len(u) \div n IN [i \in 1..n |-> Slice(u, (i - 1) * cn, i * cn)]

chunkUsers(u, n) ==
    LET cn == Len(u) \div n
        cu == [i \in 1..n |-> Slice(u, (i - 1) * cn, i * cn)]
    IN IF Len(u) > cn * n
       THEN [cu EXCEPT ![n] = Slice(u, (n - 1) * cn, Len(u))]
       ELSE cu

InitChunk ==
    /\ \E n \in 0..MaxChunkRows, from \in 0..2 :
          cin = Slice(GenWalUsers(n), IF from <= n THEN from ELSE n, n)
    /\ ck \in 1..MaxPieces
    /\ cout = <<>>
    /\ cdone = FALSE
    /\ BulkIdle
    /\ RowIdle
    /\ JoinIdle
    /\ SimpleIdle
    /\ ParIdle

ChunkCall ==
    /\ ~cdone
    /\ cout' = chunkUsers(cin, ck)
    /\ cdone' = TRUE
    /\ UNCHANGED <<cin, ck>>
    /\ UNCHANGED notChunk

NextChunk == ChunkCall

SpecChunk == InitChunk /\ [][NextChunk]_vars

RECURSIVE Flatten(_)
Flatten(ss) == IF ss = <<>> THEN <<>> ELSE Head(ss) \o Flatten(Tail(ss))

(* C8: chunkUsers returns k pieces which, one after the other, are the     *)
(* input; the first k-1 hold floor(n/k) rows each and the last holds       *)
(* floor(n/k) + n mod k.                                                    *)
C8_ChunkPartition ==
    cdone =>
        /\ Len(cout) = ck
        /\ Flatten(cout) = cin
        /\ \A i \in 1..(ck - 1) : Len(cout[i]) = Len(cin) \div ck
        /\ Len(cout[ck]) = (Len(cin) \div ck) + (Len(cin) % ck)

C8_Witness ==
    /\ cdone
    /\ ck = 10
    /\ Len(cin) = 25
    /\ Len(cout[1]) = 2
    /\ Len(cout[10]) = 7
    /\ cout[10][7].Id = 25

----------------------------------------------------------------------------
(* benchWal (app.go:447-524) and benchConcurrent (app.go:385-441).         *)
(* The database file is shared by the goroutines' connections: a write     *)
(* transaction holds the file's write lock until it commits (the others    *)
(* wait, within the busy timeout), and a query reads the committed rows.   *)

(* Run calls benchWal with 1, 2, 4, 8, 16 and benchConcurrent with 2, 4, 8 *)
(* goroutines (app.go:61-70); the model runs the smallest of them.         *)
WalGoroutines == {1, 2}
ConcGoroutines == {2}

Workers == 1..ngoroutines

(* u.Created.Year() for a time of the fixture, counted from base.          *)
Year(t) == 2023 + ((t \div TicksPerUnit) + BaseSecondOfYear) \div SecondsPerYear

(* u.Email[0:4] *)
EmailPrefix(e) == IF Len(e) >= 1 THEN e[1] ELSE ""

(* The rows InsertUsers writes for users us (sqldb.go:113-116).            *)
InsertedRows(us) == {RowsOfArgs(RowArgs(us[i]))[1] : i \in DOMAIN us}

(* for _, chunk := range chunkUsers(users, ngoroutines): goroutine w's     *)
(* shard, and its chunks := chunkUsers(chunk, 10) (app.go:479, 491).       *)
ShardBug(w) == chunkUsers(benchUsers, ngoroutines)[1]
Shard(w) == chunkUsers(benchUsers, ngoroutines)[w]
ChunksBug(w) == chunkUsers(Shard(w), WalChunks + 1)
Chunks(w) == chunkUsers(Shard(w), WalChunks)

(* The goroutine counts Run passes to benchWal (app.go:66-70).              *)
ProgramGoroutines == {1, 2, 4, 8, 16}

(* len(chunkUsers(u, n)[i-1]) for a slice u of len rows (app.go:466-473).  *)
PieceLen(len, n, i) ==
    LET cn == len \div n IN
    IF i = n /\ len > cn * n THEN len - (n - 1) * cn ELSE i * cn - (i - 1) * cn

(* makeDb(dbfile) returns a new connection handle at every call; a handle  *)
(* is numbered after the task that made it: task 0 is the bench function,  *)
(* task w is goroutine w.                                                   *)
MakeDb(t) == t + 1

Handles == {MakeDb(t) : t \in 0..ngoroutines}

(* db1 of the bench function (app.go:449, 387) and db of goroutine w, a    *)
(* variable declared inside the goroutine's function (app.go:483, 413).    *)
Db1 == MakeDb(0)
DbShared(w) == Db1
Db(w) == MakeDb(w)

(* Task t calls a method of handle h; task t calls its Close.               *)
Call(use, h, t) ==
    [use EXCEPT ![h] = [by |-> use[h].by \cup {t},
                        closes |-> use[h].closes,
                        late |-> use[h].late \/ use[h].closes > 0]]
CloseCall(use, h, t) ==
    [use EXCEPT ![h] = [by |-> use[h].by \cup {t},
                        closes |-> use[h].closes + 1,
                        late |-> use[h].late \/ use[h].closes > 0]]

(* An entry of a goroutine's record of operations.                          *)
Op(op, chunk) == [op |-> op, chunk |-> chunk]

InitPar(scenarios) ==
    /\ scenario \in scenarios
    /\ ngoroutines \in (IF scenario = "wal" THEN WalGoroutines ELSE ConcGoroutines)
    /\ \E e \in 0..MaxExtraRows :
          nusers = IF scenario = "wal" THEN WalChunks * ngoroutines + e ELSE e
    /\ benchUsers = GenWalUsers(nusers)
    /\ opc = "setup"
    /\ db1 = "none"
    /\ spawned = 0
    /\ wg = 0
    /\ aborted = FALSE
    /\ wpc = [w \in Workers |-> "idle"]
    /\ wconn = [w \in Workers |-> "none"]
    /\ wi = [w \in Workers |-> 0]
    /\ wj = [w \in Workers |-> 0]
    /\ lastRead = [w \in Workers |-> [chunk |-> -1, users |-> <<>>]]
    /\ ninserts = [w \in Workers |-> 0]
    /\ nchecks = [w \in Workers |-> 0]
    /\ dtable = {}
    /\ dlock = 0
    /\ dpend = [w \in Workers |-> {}]
    /\ connUse = [h \in Handles |-> [by |-> {}, closes |-> 0, late |-> FALSE]]
    /\ wlog = [w \in Workers |-> <<>>]
    /\ usersAcc = [writer |-> 0, writers |-> {},
                   from |-> [w \in Workers |-> -1],
                   read |-> [w \in Workers |-> <<>>]]
    /\ BulkIdle
    /\ RowIdle
    /\ JoinIdle
    /\ SimpleIdle
    /\ ChunkIdle

(* app.go:448-451 (benchWal), 386-403 (benchConcurrent): open db1, create  *)
(* the schema; benchConcurrent also inserts every user through db1.        *)
OSetup ==
    /\ ~aborted
    /\ opc = "setup"
    /\ db1' = "open"
    /\ dtable' = IF scenario = "concurrent" THEN InsertedRows(benchUsers) ELSE dtable
    /\ opc' = "closedb1"
    /\ connUse' = Call(connUse, Db1, 0)
    /\ UNCHANGED <<scenario, ngoroutines, nusers, benchUsers, spawned, wg, aborted>>
    /\ UNCHANGED <<workerVars, dlock, dpend, wlog, usersAcc>>
    /\ UNCHANGED notPar

(* app.go:452, 404: db1.Close() *)
OCloseDb1 ==
    /\ ~aborted
    /\ opc = "closedb1"
    /\ db1' = "closed"
    /\ opc' = "spawn"
    /\ connUse' = CloseCall(connUse, Db1, 0)
    /\ UNCHANGED <<scenario, ngoroutines, nusers, benchUsers, spawned, wg, aborted>>
    /\ UNCHANGED <<workerVars, dbVars, wlog, usersAcc>>
    /\ UNCHANGED notPar

(* app.go:479-481, 409-411: wg.Add(1); go func() {...}()                    *)
OSpawn ==
    /\ ~aborted
    /\ opc = "spawn"
    /\ spawned < ngoroutines
    /\ wg' = wg + 1
    /\ spawned' = spawned + 1
    /\ wpc' = [wpc EXCEPT ![spawned + 1] = "start"]
    /\ UNCHANGED <<scenario, ngoroutines, nusers, benchUsers, opc, db1, aborted>>
    /\ UNCHANGED <<wconn, wi, wj, lastRead, ninserts, nchecks, dbVars, histVars>>
    /\ UNCHANGED notPar

(* wg.Wait() returns when the counter is 0.                                 *)
WaitReturnsBug == TRUE
WaitReturns == wg = 0

(* app.go:518-519, 431-432: wg.Wait(); queryMillis := millisSince(t0)       *)
OWait ==
    /\ ~aborted
    /\ opc = "spawn"
    /\ spawned = ngoroutines
    /\ WaitReturns
    /\ opc' = "recorded"
    /\ UNCHANGED <<scenario, ngoroutines, nusers, benchUsers, db1, spawned, wg, aborted>>
    /\ UNCHANGED <<workerVars, dbVars, histVars>>
    /\ UNCHANGED notPar

(* app.go:521-523, 437-440: print the results.                              *)
OPrint ==
    /\ ~aborted
    /\ opc = "recorded"
    /\ opc' = "done"
    /\ UNCHANGED <<scenario, ngoroutines, nusers, benchUsers, db1, spawned, wg, aborted>>
    /\ UNCHANGED <<workerVars, dbVars, histVars>>
    /\ UNCHANGED notPar

(* app.go:483-491, 413-418: db := makeDb(dbfile); db.Exec(PRAGMA ...)       *)
WStart(w) ==
    /\ ~aborted
    /\ wpc[w] = "start"
    /\ wconn' = [wconn EXCEPT ![w] = "open"]
    /\ wpc' = [wpc EXCEPT ![w] = IF scenario = "wal" THEN "insert" ELSE "find"]
    /\ connUse' = Call(connUse, Db(w), w)
    /\ UNCHANGED <<orchVars, wi, wj, lastRead, ninserts, nchecks, dbVars, wlog, usersAcc>>
    /\ UNCHANGED notPar

(* app.go:507, sqldb.go:109-116: db.InsertUsers(insertUserSql, chunk) up   *)
(* to its last execute; a row whose id is already in the table fails the   *)
(* execute, and MustBeNil ends the process.                                 *)
WInsertBegin(w) ==
    /\ ~aborted
    /\ wpc[w] = "insert"
    /\ dlock = 0
    /\ LET chunk == Chunks(w)[wi[w] + 1]
           new == InsertedRows(chunk)
       IN IF Cardinality(Ids(new)) = Len(chunk) /\ Ids(new) \cap Ids(dtable) = {}
          THEN /\ dlock' = w
               /\ dpend' = [dpend EXCEPT ![w] = new]
               /\ wpc' = [wpc EXCEPT ![w] = "commit"]
               /\ UNCHANGED aborted
          ELSE /\ aborted' = TRUE
               /\ UNCHANGED <<dlock, dpend, wpc>>
    /\ connUse' = Call(connUse, Db(w), w)
    /\ UNCHANGED <<scenario, ngoroutines, nusers, benchUsers, opc, db1, spawned, wg>>
    /\ UNCHANGED <<wconn, wi, wj, lastRead, ninserts, nchecks, dtable, wlog, usersAcc>>
    /\ UNCHANGED notPar

(* sqldb.go:117-120: stmt.Close(); tx.Commit()                              *)
WInsertCommit(w) ==
    /\ ~aborted
    /\ wpc[w] = "commit"
    /\ dtable' = dtable \cup dpend[w]
    /\ dpend' = [dpend EXCEPT ![w] = {}]
    /\ dlock' = 0
    /\ ninserts' = [ninserts EXCEPT ![w] = @ + 1]
    /\ wj' = [wj EXCEPT ![w] = 0]
    /\ wpc' = [wpc EXCEPT ![w] = "check"]
    /\ connUse' = Call(connUse, Db(w), w)
    /\ wlog' = [wlog EXCEPT ![w] = Append(@, Op("insert", wi[w]))]
    /\ UNCHANGED <<orchVars, wconn, wi, lastRead, nchecks, usersAcc>>
    /\ UNCHANGED notPar

(* The chunk index that iteration j of the window reads (app.go:510-511).  *)
CheckIndexBug(i, j) == i - j + 1
CheckIndex(i, j) == i - j

(* app.go:496-503: the validation of a query result against its chunk.     *)
Validates(count, first, result) ==
    /\ count = Len(result)
    /\ \A k \in DOMAIN result :
          /\ result[k].Id = (k - 1) + first
          /\ Year(result[k].Created) = 2023
          /\ EmailPrefix(result[k].Email) = "user"
          /\ result[k].Active = TRUE

(* app.go:509-513 with checkChunk (app.go:492-504): one read-back of the   *)
(* window, then on to the next j with i-j >= 0, or to the next chunk.      *)
(* chunk is the argument of checkChunk and result what FindUsers returned.  *)
WCheck(w) ==
    /\ ~aborted
    /\ wpc[w] = "check"
    /\ LET idx == CheckIndex(wi[w], wj[w])
           chunks == Chunks(w)
           inRange == 0 <= idx /\ idx < Len(chunks)
           more == wj[w] + 1 < Window /\ wi[w] - (wj[w] + 1) >= 0
       IN \E chunk \in {IF inRange THEN chunks[idx + 1] ELSE <<>>} :
          IF Len(chunk) = 0
          THEN (* chunks[i] or chunk[0]: index out of range *)
               /\ aborted' = TRUE
               /\ UNCHANGED <<lastRead, nchecks, wi, wj, wpc, connUse, wlog>>
          ELSE \E result \in {FindUsersBetween(dtable, chunk[1].Id, chunk[Len(chunk)].Id)} :
               /\ lastRead' = [lastRead EXCEPT ![w] = [chunk |-> idx, users |-> result]]
               /\ connUse' = Call(connUse, Db(w), w)
               /\ wlog' = [wlog EXCEPT ![w] = Append(@, Op("check", idx))]
               /\ IF Validates(Len(chunk), chunk[1].Id, result)
                  THEN /\ nchecks' = [nchecks EXCEPT ![w] = @ + 1]
                       /\ wj' = [wj EXCEPT ![w] = IF more THEN @ + 1 ELSE 0]
                       /\ wi' = [wi EXCEPT ![w] = IF more THEN @ ELSE @ + 1]
                       /\ wpc' = [wpc EXCEPT ![w] =
                                     IF more THEN "check"
                                     ELSE IF wi[w] + 1 < Len(chunks) THEN "insert"
                                     ELSE "close"]
                       /\ UNCHANGED aborted
                  ELSE /\ aborted' = TRUE
                       /\ UNCHANGED <<nchecks, wi, wj, wpc>>
    /\ UNCHANGED <<scenario, ngoroutines, nusers, benchUsers, opc, db1, spawned, wg>>
    /\ UNCHANGED <<wconn, ninserts, dbVars, usersAcc>>
    /\ UNCHANGED notPar

(* app.go:419: users = db.FindUsers("... ORDER BY id"), an assignment to   *)
(* the users variable of benchConcurrent, which every goroutine shares.    *)
CFind(w) ==
    /\ ~aborted
    /\ wpc[w] = "find"
    /\ benchUsers' = FindUsers(dtable)
    /\ lastRead' = [lastRead EXCEPT ![w] = [chunk |-> 0, users |-> FindUsers(dtable)]]
    /\ wpc' = [wpc EXCEPT ![w] = "validate"]
    /\ connUse' = Call(connUse, Db(w), w)
    /\ usersAcc' = [usersAcc EXCEPT !.writer = w, !.writers = @ \cup {w}]
    /\ UNCHANGED <<scenario, ngoroutines, nusers, opc, db1, spawned, wg, aborted>>
    /\ UNCHANGED <<wconn, wi, wj, ninserts, nchecks, dbVars, wlog>>
    /\ UNCHANGED notPar

(* A slice whose elements another goroutine wrote and has not published:   *)
(* as long, every element still the zero User.                              *)
Unpublished(us) == [k \in DOMAIN us |-> NewUser(0, 0, <<>>, FALSE)]

(* What goroutine w reads from the variable users.  A value it assigned    *)
(* itself it reads back; a value another goroutine assigned reaches it     *)
(* without synchronisation (a data race): the slice, or the slice ahead of *)
(* its elements.                                                            *)
ReadUsers(w) ==
    IF usersAcc.writer = w THEN {benchUsers}
    ELSE {benchUsers, Unpublished(benchUsers)}

(* app.go:420-427: the validation, which reads the shared variable.        *)
CValidate(w) ==
    /\ ~aborted
    /\ wpc[w] = "validate"
    /\ \E v \in ReadUsers(w) :
          /\ usersAcc' = [usersAcc EXCEPT !.from[w] = usersAcc.writer, !.read[w] = v]
          /\ IF Validates(nusers, 1, v)
             THEN /\ nchecks' = [nchecks EXCEPT ![w] = @ + 1]
                  /\ wpc' = [wpc EXCEPT ![w] = "close"]
                  /\ UNCHANGED aborted
             ELSE /\ aborted' = TRUE
                  /\ UNCHANGED <<nchecks, wpc>>
    /\ UNCHANGED <<scenario, ngoroutines, nusers, benchUsers, opc, db1, spawned, wg>>
    /\ UNCHANGED <<wconn, wi, wj, lastRead, ninserts, dbVars, connUse, wlog>>
    /\ UNCHANGED notPar

(* app.go:490, 418: the deferred db.Close(), run when the function ends.   *)
WClose(w) ==
    /\ ~aborted
    /\ wpc[w] = "close"
    /\ wconn' = [wconn EXCEPT ![w] = "closed"]
    /\ wpc' = [wpc EXCEPT ![w] = "exit"]
    /\ connUse' = CloseCall(connUse, Db(w), w)
    /\ UNCHANGED <<orchVars, wi, wj, lastRead, ninserts, nchecks, dbVars, wlog, usersAcc>>
    /\ UNCHANGED notPar

(* app.go:482, 412: the deferred wg.Done(), run after db.Close().           *)
WDone(w) ==
    /\ ~aborted
    /\ wpc[w] = "exit"
    /\ wg' = wg - 1
    /\ wpc' = [wpc EXCEPT ![w] = "done"]
    /\ UNCHANGED <<scenario, ngoroutines, nusers, benchUsers, opc, db1, spawned, aborted>>
    /\ UNCHANGED <<wconn, wi, wj, lastRead, ninserts, nchecks, dbVars, histVars>>
    /\ UNCHANGED notPar

InitWal == InitPar({"wal"})

NextWal ==
    \/ OSetup \/ OCloseDb1 \/ OSpawn \/ OWait \/ OPrint
    \/ \E w \in Workers : WStart(w)
    \/ \E w \in Workers : WInsertBegin(w)
    \/ \E w \in Workers : WInsertCommit(w)
    \/ \E w \in Workers : WCheck(w)
    \/ \E w \in Workers : WClose(w)
    \/ \E w \in Workers : WDone(w)

SpecWal == InitWal /\ [][NextWal]_vars

(* benchWal when the bench function and every goroutine keep running: as  *)
(* long as the program can take a step it takes one.  A goroutine that     *)
(* waits for the write lock gets it, for the holder commits after a        *)
(* bounded number of steps and releases it (the busy timeout is long       *)
(* enough, which is the same as every database operation succeeding).      *)
SpecWalFair == InitWal /\ [][NextWal]_vars /\ WF_vars(NextWal)

(* benchWal on any number of users, fewer than 10 a goroutine included.    *)
InitWalAny ==
    /\ scenario = "wal"
    /\ ngoroutines \in WalGoroutines
    /\ nusers \in 0..(WalChunks * ngoroutines + MaxExtraRows)
    /\ benchUsers = GenWalUsers(nusers)
    /\ opc = "setup"
    /\ db1 = "none"
    /\ spawned = 0
    /\ wg = 0
    /\ aborted = FALSE
    /\ wpc = [w \in Workers |-> "idle"]
    /\ wconn = [w \in Workers |-> "none"]
    /\ wi = [w \in Workers |-> 0]
    /\ wj = [w \in Workers |-> 0]
    /\ lastRead = [w \in Workers |-> [chunk |-> -1, users |-> <<>>]]
    /\ ninserts = [w \in Workers |-> 0]
    /\ nchecks = [w \in Workers |-> 0]
    /\ dtable = {}
    /\ dlock = 0
    /\ dpend = [w \in Workers |-> {}]
    /\ connUse = [h \in Handles |-> [by |-> {}, closes |-> 0, late |-> FALSE]]
    /\ wlog = [w \in Workers |-> <<>>]
    /\ usersAcc = [writer |-> 0, writers |-> {},
                   from |-> [w \in Workers |-> -1],
                   read |-> [w \in Workers |-> <<>>]]
    /\ BulkIdle
    /\ RowIdle
    /\ JoinIdle
    /\ SimpleIdle
    /\ ChunkIdle

SpecWalAny == InitWalAny /\ [][NextWal]_vars

InitBench == InitPar({"wal", "concurrent"})

NextBench ==
    \/ NextWal
    \/ \E w \in Workers : CFind(w)
    \/ \E w \in Workers : CValidate(w)

SpecBench == InitBench /\ [][NextBench]_vars

----------------------------------------------------------------------------
(* benchSimpleBulk (app.go:529-572).                                        *)

InitSimple ==
    /\ capable \in BOOLEAN
    /\ spc = "setup"
    /\ \E n \in 0..MaxBenchRows : input = GenUsers(n)
    /\ rows = <<>> /\ batch = <<>> /\ stmt = 0
    /\ st1 = 0 /\ st10 = 0 /\ st100 = 0 /\ pc = "idle"
    /\ stmts = <<>> /\ txState = "none" /\ pending = {} /\ table = {}
    /\ log = <<>>
    /\ faults \in 0..MaxFaults
    /\ RowIdle
    /\ JoinIdle
    /\ ChunkIdle
    /\ ParIdle

(* app.go:530-545: open the database, create the schema, make the users.   *)
SSetup ==
    /\ spc = "setup"
    /\ spc' = "assert"
    /\ UNCHANGED <<capable, bulkVars>>
    /\ UNCHANGED notSimple

(* db.(BulkDb): the type assertion holds when the handle implements BulkDb *)
(* and panics when it does not.                                             *)
HasBulkDbBug == TRUE
HasBulkDb == capable

(* app.go:547: db.(BulkDb).InsertUsersBulk(..., users), up to the entry of *)
(* BulkInsert.                                                               *)
SAssert ==
    /\ spc = "assert"
    /\ IF HasBulkDb
       THEN /\ spc' = "insert"
            /\ rows' = input
            /\ pc' = "begin"
       ELSE /\ spc' = "panic"
            /\ UNCHANGED <<rows, pc>>
    /\ UNCHANGED <<capable, input, batch, stmt, st1, st10, st100, stmts, txState,
                   pending, table, log, faults>>
    /\ UNCHANGED notSimple

(* app.go:561-566 after app.go:555: the validation of the rows read back.  *)
(* The first token of an email stands for its leading characters.          *)
SimpleValid(count, result) ==
    /\ Len(result) = count
    /\ \A k \in DOMAIN result :
          /\ result[k].Id = k
          /\ 2023 <= Year(result[k].Created) /\ Year(result[k].Created) <= 2025
          /\ EmailPrefix(result[k].Email) = "user"
          /\ result[k].Active = TRUE

(* app.go:554-566: InsertUsersBulk has returned; query all users and       *)
(* validate them.                                                            *)
SQuery ==
    /\ spc = "insert"
    /\ pc = "done"
    /\ spc' = IF SimpleValid(Len(input), FindUsers(table)) THEN "done" ELSE "panic"
    /\ UNCHANGED <<capable, bulkVars>>
    /\ UNCHANGED notSimple

NextSimple ==
    \/ SSetup \/ SAssert \/ SQuery
    \/ Begin \/ Take \/ Prepare \/ Exec \/ LoopExit
    \/ Close1 \/ Close10 \/ Close100 \/ Commit

SpecSimple == InitSimple /\ [][NextSimple]_vars

(* C13: BulkInsert is entered only on a handle that has the capability and *)
(* only after the assertion; on a handle without it the scenario panics at *)
(* the assertion and no engine call is ever made: nothing is inserted by   *)
(* the bulk insert and nothing by the row-by-row insert.                    *)
C13_CapabilityCheck ==
    /\ pc # "idle" => capable /\ spc \in {"insert", "done", "panic"}
    /\ spc \in {"setup", "assert"} => pc = "idle" /\ log = <<>>
    /\ ~capable =>
          /\ spc \in {"setup", "assert", "panic"}
          /\ pc = "idle" /\ log = <<>> /\ pending = {} /\ table = {}
          /\ rpc = "idle" /\ rlog = <<>> /\ rpending = {} /\ rtable = {}

C13_Witness ==
    /\ ~capable
    /\ spc = "panic"
    /\ Len(input) = MaxBenchRows
    /\ log = <<>> /\ table = {} /\ rtable = {}

----------------------------------------------------------------------------
(* Properties of the concurrent scenarios.                                  *)

(* The identifiers of a sequence of users, in order.                        *)
IdsOf(us) == [k \in DOMAIN us |-> us[k].Id]

(* The identifiers first..first+count-1 in ascending order.                 *)
Contiguous(first, count) == [k \in 1..count |-> first + k - 1]

(* C9: in benchWal no validation fails (nothing aborts the process); a     *)
(* read of the identifier range of any chunk whose insert has committed    *)
(* returns, whatever the other goroutines have done, exactly the chunk's   *)
(* rows: as many as the chunk has, identifiers contiguous and ascending;   *)
(* and so did the last read each goroutine made.                            *)
C9_ReadAfterWrite ==
    /\ ~aborted
    /\ \A w \in Workers : \A c \in 1..ninserts[w] :
          LET chunk == Chunks(w)[c]
              result == FindUsersBetween(dtable, chunk[1].Id, chunk[Len(chunk)].Id)
          IN /\ Len(result) = Len(chunk)
             /\ IdsOf(result) = Contiguous(chunk[1].Id, Len(chunk))
             /\ IdsOf(result) = IdsOf(chunk)
    /\ \A w \in Workers : lastRead[w].chunk >= 0 =>
          LET chunk == Chunks(w)[lastRead[w].chunk + 1] IN
          /\ lastRead[w].chunk < ninserts[w]
          /\ Len(lastRead[w].users) = Len(chunk)
          /\ IdsOf(lastRead[w].users) = Contiguous(chunk[1].Id, Len(chunk))

(* Goroutine 1 has just read back chunk i-2 while goroutine 2 is inside a  *)
(* write transaction.                                                       *)
C9_Witness ==
    /\ scenario = "wal" /\ ngoroutines = 2
    /\ wpc[1] = "insert" /\ wi[1] = 9
    /\ lastRead[1].chunk = 6
    /\ Len(lastRead[1].users) = 1
    /\ dlock = 2
    /\ dpend[2] # {}
    /\ nchecks[1] = 24

(* The validations one goroutine of benchWal makes: Window per chunk, less *)
(* those of the first chunks, which have fewer chunks before them.         *)
WalChecks == Window * WalChunks - (Window * (Window - 1)) \div 2

Recorded == opc \in {"recorded", "done"}

(* C10: when the elapsed time is recorded every goroutine has finished its *)
(* work (benchWal: 10 inserts and all their validations; benchConcurrent:  *)
(* its query and validation), closed its connection and ended; and from    *)
(* then on no goroutine and no database state changes.                      *)
C10_JoinBarrier ==
    /\ [](Recorded =>
            \A w \in Workers :
               /\ wpc[w] = "done"
               /\ wconn[w] = "closed"
               /\ scenario = "wal" => ninserts[w] = WalChunks /\ nchecks[w] = WalChecks
               /\ scenario = "concurrent" => nchecks[w] = 1)
    /\ [][Recorded => UNCHANGED <<workerVars, dbVars>>]_vars

C10_Witness ==
    /\ opc = "recorded"
    /\ scenario = "wal"
    /\ ngoroutines = 2
    /\ wg = 0
    /\ \A w \in Workers : wpc[w] = "done" /\ nchecks[w] = 27
    /\ Cardinality(dtable) = nusers

(* C11: every connection handle is called by the task that made it and by *)
(* no other, is closed at most once and never called after its Close; a    *)
(* goroutine's handle is open from its start to its end (every database    *)
(* operation in between goes to it) and closed exactly once when it ends;  *)
(* and db1 is closed before the first goroutine is started.                 *)
C11_OwnConnection ==
    /\ \A t \in 0..ngoroutines :
          /\ connUse[MakeDb(t)].by \subseteq {t}
          /\ connUse[MakeDb(t)].closes <= 1
          /\ ~connUse[MakeDb(t)].late
    /\ \A w \in Workers :
          /\ wconn[w] = "none" <=> wpc[w] \in {"idle", "start"}
          /\ wconn[w] = "none" => connUse[Db(w)].by = {}
          /\ wconn[w] = "open" =>
                connUse[Db(w)] = [by |-> {w}, closes |-> 0, late |-> FALSE]
          /\ wconn[w] = "closed" <=> wpc[w] \in {"exit", "done"}
          /\ wconn[w] = "closed" =>
                connUse[Db(w)] = [by |-> {w}, closes |-> 1, late |-> FALSE]
          /\ wpc[w] # "idle" => db1 = "closed"
    /\ spawned > 0 => db1 = "closed" /\ connUse[Db1].closes = 1
    /\ db1 = "closed" => connUse[Db1] = [by |-> {0}, closes |-> 1, late |-> FALSE]

(* Goroutine 1 has ended and closed its connection while goroutine 2 is    *)
(* inside a write transaction on its own.                                   *)
C11_Witness ==
    /\ scenario = "wal" /\ ngoroutines = 2
    /\ wpc[1] = "done" /\ wconn[1] = "closed"
    /\ wpc[2] = "commit" /\ wconn[2] = "open"
    /\ connUse[Db(1)].by = {1} /\ connUse[Db(1)].closes = 1
    /\ connUse[Db(2)].by = {2} /\ connUse[Db(2)].closes = 0
    /\ connUse[Db1].by = {0}

(* The operations of one goroutine of benchWal when it has gone through    *)
(* its first n chunks: per chunk i its insert, then the read-backs of      *)
(* i, i-1, i-2 that are not below 0.                                        *)
RECURSIVE WalOrderTo(_)
WalOrderTo(n) ==
    IF n = 0 THEN <<>>
    ELSE WalOrderTo(n - 1) \o <<Op("insert", n - 1)>>
         \o [j \in 1..(IF n < Window THEN n ELSE Window) |-> Op("check", n - j)]

IsPrefix(s, t) == Len(s) <= Len(t) /\ s = SubSeq(t, 1, Len(s))

CountOps(l, op) == Cardinality({k \in DOMAIN l : l[k].op = op})

C21_NoEmptyChunk ==
    /\ nusers >= WalChunks * ngoroutines =>
          /\ \A w \in Workers : \A c \in 1..WalChunks : Len(Chunks(w)[c]) > 0
          /\ ~aborted
    /\ \A w \in Workers :
          /\ Len(Chunks(w)) = WalChunks
          /\ \A c \in 1..WalChunks :
                Len(Chunks(w)[c]) =
                    PieceLen(PieceLen(nusers, ngoroutines, w), WalChunks, c)
    /\ \A n \in ProgramGoroutines : \A w \in 1..n : \A c \in 1..WalChunks :
          PieceLen(PieceLen(ProgramUsers, n, w), WalChunks, c) > 0

(* Exactly 10 users a goroutine: every chunk holds one row, and goroutine  *)
(* 2 has read back all of its chunks.                                       *)
C21_Witness ==
    /\ ngoroutines = 2
    /\ nusers = WalChunks * ngoroutines
    /\ \A c \in 1..WalChunks : Len(Chunks(2)[c]) = 1
    /\ wpc[2] = "done"
    /\ nchecks[2] = WalChecks
    /\ lastRead[2].chunk = 7
    /\ wpc[1] = "start"

(* The identifiers of the users of a chunk.                                 *)
IdSet(chunk) == {chunk[k].Id : k \in DOMAIN chunk}

(* The rows of the first k chunks of cs, and of all the chunks the first   *)
(* n goroutines have inserted so far.                                       *)
RECURSIVE SumLens(_, _)
SumLens(cs, k) == IF k = 0 THEN 0 ELSE Len(cs[k]) + SumLens(cs, k - 1)

RECURSIVE InsertedTotal(_)
InsertedTotal(n) ==
    IF n = 0 THEN 0 ELSE SumLens(Chunks(n), ninserts[n]) + InsertedTotal(n - 1)

(* C22: two different chunks, of one goroutine or of two, share no         *)
(* identifier; no goroutine inserts a chunk twice; the table holds one row *)
(* per identifier and as many rows as the inserted chunks have, so no      *)
(* identifier was inserted twice; the rows of an open transaction are not  *)
(* in the table; and no insert fails on a key (nothing aborts).            *)
C22_DisjointChunks ==
    /\ \A w1, w2 \in Workers : \A c1, c2 \in 1..WalChunks :
          (w1 # w2 \/ c1 # c2) =>
              IdSet(Chunks(w1)[c1]) \cap IdSet(Chunks(w2)[c2]) = {}
    /\ \A w \in Workers : \A k, m \in DOMAIN wlog[w] :
          (wlog[w][k].op = "insert" /\ wlog[w][m] = wlog[w][k]) => k = m
    /\ Cardinality(Ids(dtable)) = Cardinality(dtable)
    /\ Cardinality(dtable) = InsertedTotal(ngoroutines)
    /\ \A w \in Workers :
          /\ Ids(dpend[w]) \cap Ids(dtable) = {}
          /\ dpend[w] # {} => dlock = w /\ dpend[w] = InsertedRows(Chunks(w)[wi[w] + 1])
    /\ ~aborted

(* Both goroutines have inserted some of their chunks and goroutine 2 is   *)
(* about to commit another.                                                  *)
C22_Witness ==
    /\ ngoroutines = 2
    /\ nusers = 23
    /\ ninserts[1] = 4 /\ ninserts[2] = 9
    /\ dlock = 2 /\ Cardinality(dpend[2]) = 3
    /\ Cardinality(dtable) = 13

(* C23: whenever benchWal is past wg.Wait() the table holds exactly the    *)
(* rows of the n generated users, one per identifier 1..n, and no          *)
(* transaction is open; and the bench function does get past wg.Wait(),    *)
(* with every goroutine ended.                                               *)
C23_AllRowsAtBarrier ==
    /\ [](Recorded =>
            /\ dtable = InsertedRows(benchUsers)
            /\ Ids(dtable) = 1..nusers
            /\ Cardinality(dtable) = nusers
            /\ dlock = 0
            /\ \A w \in Workers : dpend[w] = {})
    /\ <>(Recorded /\ \A w \in Workers : wpc[w] = "done")

C23_Witness ==
    /\ opc = "done"
    /\ ngoroutines = 2
    /\ nusers = 22
    /\ Ids(dtable) = 1..22
    /\ Cardinality(dtable) = 22
    /\ ninserts = <<10, 10>>

(* C20: in benchConcurrent at most one goroutine ever assigns the variable *)
(* users, and the value a goroutine validates is the one its own query     *)
(* returned, assigned by itself.                                            *)
C20_NoSharedVariable ==
    scenario = "concurrent" =>
        /\ Cardinality(usersAcc.writers) <= 1
        /\ \A w \in Workers : usersAcc.from[w] # -1 =>
              /\ usersAcc.from[w] = w
              /\ usersAcc.read[w] = lastRead[w].users

----------------------------------------------------------------------------
(* Properties of BulkInsert, read off the log of engine calls.             *)

Execs == SelectSeq(log, LAMBDA e : e.op = "exec")
Prepares == SelectSeq(log, LAMBDA e : e.op = "prepare")
Closes == SelectSeq(log, LAMBDA e : e.op = "close")

RECURSIVE SumSizes(_)
SumSizes(es) == IF es = <<>> THEN 0 ELSE Head(es).size + SumSizes(Tail(es))

RECURSIVE ConcatArgs(_)
ConcatArgs(es) == IF es = <<>> THEN <<>> ELSE Head(es).args \o ConcatArgs(Tail(es))

(* The loop of sqldb.go:36-63 has been left.                               *)
LoopDone == pc \in {"close1", "close10", "close100", "commit", "done"}

(* The batch of the running iteration, sliced off and not yet executed.    *)
InFlight == IF pc \in {"prepare", "exec"} THEN batch ELSE <<>>

(* The number of rows the statement of handle h inserts per execution.     *)
Nominal(h) == stmts[h].nparams \div NCols

ShortBatches == {i \in DOMAIN Execs : Execs[i].size < Nominal(Execs[i].stmt)}

(* C1: the batches have sizes in {100, 10, 1}, their sizes sum to n once   *)
(* the loop is over (and, with what is left, to n at any time), and at     *)
(* most one batch, the last one, is smaller than its statement's size.     *)
C1_BatchSizesSum ==
    /\ \A i \in DOMAIN Execs : Execs[i].size \in {Batch100, Batch10, 1}
    /\ pc # "panic" => SumSizes(Execs) + Len(InFlight) + Len(rows) = Len(input)
    /\ LoopDone => SumSizes(Execs) = Len(input)
    /\ Cardinality(ShortBatches) <= 1
    /\ LoopDone => \A i \in ShortBatches : i = Len(Execs)

C1_Witness ==
    /\ pc = "done"
    /\ Len(input) > 2 * Batch100
    /\ {Execs[i].size : i \in DOMAIN Execs} = {Batch100, Batch10, 1}

(* C2: the bound values of the executions so far, then the batch in        *)
(* flight, then the rows left are the input rows mapped through values,    *)
(* in input order; once the loop is over the executions bound all of it.   *)
C2_BoundInOrder ==
    /\ pc \notin {"panic", "begin"} =>
          ConcatArgs(Execs) \o BatchArgs(InFlight) \o BatchArgs(rows) = BatchArgs(input)
    /\ LoopDone => ConcatArgs(Execs) = BatchArgs(input)
    /\ \A i \in DOMAIN Execs : Len(Execs[i].args) = NCols * Execs[i].size

C2_Witness ==
    /\ pc = "done"
    /\ Len(input) > Batch100 + Batch10
    /\ Len(Execs) >= 3
    /\ ConcatArgs(Execs)[NCols * Len(input) - 3] = Val(Len(input))

PreparesOf(s) == {i \in DOMAIN log : log[i].op = "prepare" /\ log[i].size = s}
ExecsOf(s) == {i \in DOMAIN log : log[i].op = "exec" /\ log[i].size = s}

(* C3: per size at most one prepare, made right before the first batch of  *)
(* that size; at most 3 prepares; a batch of size s runs on the statement  *)
(* prepared for s, which takes NCols * s parameters.                       *)
C3_PrepareOnce ==
    /\ \A s \in {Batch100, Batch10, 1} :
          /\ Cardinality(PreparesOf(s)) <= 1
          /\ \A i \in PreparesOf(s) :
                /\ \A j \in ExecsOf(s) : i < j
                /\ (i < Len(log) /\ log[i].ok) =>
                      log[i + 1].op = "exec" /\ log[i + 1].size = s
    /\ Len(Prepares) <= 3
    /\ \A j \in DOMAIN log : log[j].op = "exec" =>
          /\ \E i \in PreparesOf(log[j].size) : log[i].ok /\ log[i].stmt = log[j].stmt
          /\ Nominal(log[j].stmt) = log[j].size

C3_Witness ==
    /\ pc = "done"
    /\ Len(Prepares) = 3
    /\ Cardinality(ExecsOf(Batch100)) = 2
    /\ Cardinality(ExecsOf(Batch10)) >= 2
    /\ Cardinality(ExecsOf(1)) >= 2

LastExec == IF Execs = <<>> THEN 0
            ELSE CHOOSE i \in DOMAIN log :
                    log[i].op = "exec" /\ \A j \in DOMAIN log : log[j].op = "exec" => j <= i

(* C4: one transaction, begun first and committed last; prepares and       *)
(* executes lie inside it; each prepared statement is closed exactly once, *)
(* nothing else is closed, and the closes lie between the last execute     *)
(* and the commit.                                                         *)
C4_OneTransaction ==
    /\ \A i \in DOMAIN log :
          /\ (log[i].op = "begin") = (i = 1)
          /\ log[i].op = "commit" => i = Len(log)
          /\ log[i].op \in {"prepare", "exec", "close"} => txState = "open" \/ pc = "done"
    /\ \A i \in DOMAIN log : log[i].op = "close" =>
          /\ log[i].stmt \in DOMAIN stmts
          /\ i > LastExec
          /\ \A j \in DOMAIN log : (log[j].op = "close" /\ log[j].stmt = log[i].stmt) => j = i
    /\ pc = "done" =>
          /\ Len(log) >= 2
          /\ log[1].op = "begin" /\ log[1].ok
          /\ log[Len(log)].op = "commit" /\ log[Len(log)].ok
          /\ txState = "committed"
          /\ \A h \in DOMAIN stmts :
                /\ stmts[h].closed
                /\ Cardinality({i \in DOMAIN log : log[i].op = "close" /\ log[i].stmt = h}) = 1
          /\ Len(Closes) = Len(stmts)

C4_Witness ==
    /\ pc = "done"
    /\ Len(stmts) = 3
    /\ Len(Closes) = 3
    /\ Len(Execs) > 3

(* C5: a failed engine call is the last call of the run, and a run with a  *)
(* failed call never reports success.                                      *)
C5_FailureAborts ==
    /\ \A i \in DOMAIN log : ~log[i].ok => i = Len(log)
    /\ pc = "done" => \A i \in DOMAIN log : log[i].ok

(* C12: a call with 0 rows makes no prepare, no execute and no close; its  *)
(* only engine calls are one begin and then one commit, and when it        *)
(* returns the (empty) transaction is committed.                            *)
C12_EmptyInput ==
    input = <<>> =>
        /\ \A i \in DOMAIN log : log[i].op \in {"begin", "commit"}
        /\ Prepares = <<>> /\ Execs = <<>> /\ Closes = <<>>
        /\ stmts = <<>> /\ st1 = 0 /\ st10 = 0 /\ st100 = 0
        /\ pending = {} /\ table = {}
        /\ pc = "done" =>
              /\ log = <<Ev("begin", 0, 0, <<>>, TRUE), Ev("commit", 0, 0, <<>>, TRUE)>>
              /\ txState = "committed"
        /\ pc = "panic" => ~log[Len(log)].ok

C12_Witness ==
    /\ input = <<>>
    /\ pc = "done"
    /\ Len(log) = 2 /\ log[1].op = "begin" /\ log[2].op = "commit"
    /\ txState = "committed"

(* C14: the batch sizes never increase along the executes; once the loop   *)
(* is over there were floor(n/100) batches of 100, floor((n mod 100)/10)   *)
(* of 10 and n mod 10 of 1; for n < 10 only the size-1 statement is        *)
(* prepared and executed.                                                   *)
C14_GreedyFromFront ==
    /\ \A i, j \in DOMAIN Execs : i < j => Execs[i].size >= Execs[j].size
    /\ Cardinality(ExecsOf(Batch100)) <= Len(input) \div 100
    /\ Cardinality(ExecsOf(Batch10)) <= (Len(input) % 100) \div 10
    /\ Cardinality(ExecsOf(1)) <= Len(input) % 10
    /\ LoopDone =>
          /\ Cardinality(ExecsOf(Batch100)) = Len(input) \div 100
          /\ Cardinality(ExecsOf(Batch10)) = (Len(input) % 100) \div 10
          /\ Cardinality(ExecsOf(1)) = Len(input) % 10
    /\ Len(input) < 10 =>
          /\ \A i \in DOMAIN log : log[i].op \in {"prepare", "exec"} => log[i].size = 1
          /\ st10 = 0 /\ st100 = 0

C14_Witness ==
    /\ pc = "done"
    /\ Len(input) = 223
    /\ Cardinality(ExecsOf(Batch100)) = 2
    /\ Cardinality(ExecsOf(Batch10)) = 2
    /\ Cardinality(ExecsOf(1)) = 3
    /\ Execs[1].size = 100 /\ Execs[3].size = 10 /\ Execs[7].size = 1

(* C19: when the call has ended, by returning or by a panic, Close has     *)
(* been called on every statement the call prepared.                        *)
C19_ReleasedOnAllPaths ==
    pc \in {"done", "panic"} =>
        \A h \in DOMAIN stmts :
            \E i \in DOMAIN log : log[i].op = "close" /\ log[i].stmt = h

(* The iterations of the loop of sqldb.go:36-63 begun so far: one for each  *)
(* batch executed and one for the batch in flight.                          *)
Iterations == Len(Execs) + (IF pc \in {"prepare", "exec"} THEN 1 ELSE 0)

(* C24: the loop of BulkInsert ends for every n >= 0: an iteration takes    *)
(* between 1 and 100 rows off the remaining rows, namely its batch, so the  *)
(* remaining count strictly decreases; the iterations begun never exceed    *)
(* the rows taken so far, hence never n; and the loop is left (with no row  *)
(* remaining, or by the panic of a failed prepare).                         *)
C24_LoopTerminates ==
    /\ [][(pc = "loop" /\ pc' \in {"prepare", "exec"}) =>
            /\ Len(rows') < Len(rows)
            /\ Len(rows) - Len(rows') >= 1
            /\ Len(rows) - Len(rows') <= Batch100
            /\ Len(rows) - Len(rows') = Len(batch')]_vars
    /\ [][Len(rows') <= Len(rows)]_vars
    /\ [](Iterations <= Len(input) - Len(rows))
    /\ [](LoopDone => rows = <<>> /\ Len(Execs) <= Len(input))
    /\ <>(LoopDone \/ pc = "panic")

C24_Witness ==
    /\ pc = "done"
    /\ Len(input) = 109
    /\ rows = <<>>
    /\ Len(Execs) = 10
    /\ Execs[1].size = Batch100
    /\ Execs[10].size = 1

=============================================================================
